---- MODULE Spec2Model ----
(***************************************************************************)
(* sys-audit: the skill registry (skills/__init__.py), the orchestrator    *)
(* (core/orchestrator.py), the 'audit run' command (cli/audit.py), the     *)
(* generative-text client (llm/client.py), the standalone analysis         *)
(* (core/standalone.py) and the code-quality skill                         *)
(* (skills/code_quality/skill.py), as state machines.                      *)
(*                                                                         *)
(* Conventions.  Python's None is a sentinel of the same shape as the      *)
(* value it stands for (NoSkill, NoSkillsArg, NoOption).  A confidence is  *)
(* an integer number of tenths (0.6 is 6).  A dict is the sequence of its  *)
(* entries in insertion order, as CPython iterates it.                     *)
(***************************************************************************)
EXTENDS Naturals, Sequences, FiniteSets, TLC

VARIABLES
    _skills,          \* skills/__init__.py: the module-level registry dict
    loads,            \* history: how often the built-ins were registered
    pc,               \* where the process is
    caller,           \* "none", "cli" (audit run) or "api" (run_audit called directly)
    repo_exists,      \* Path(repo_path).exists()
    skills,           \* run_audit's skills argument
    skill_instances,  \* run_audit's resolved skill list
    idx,              \* position of the for loop over skill_instances
    all_findings,     \* run_audit's accumulator
    calls,            \* history: the skill.analyze calls made, in order
    outcome,          \* how run_audit ended: a returned list or a raised error
    audit,            \* the Audit record of the command: status, error_message
    op,               \* registry API: the last call and what it returned
    lastReg,          \* history: per name, the skill last passed to register_skill
    got,              \* history: get_available_skills or get_skill_by_name was called
    llm,              \* OllamaClient: the last analyze call and what it returned
    sa,               \* run_standalone_analysis: its locals and where it is
    avail,            \* OllamaClient: the last is_available call and what it returned
    mock,             \* MockLLMClient: the last call and how it ended
    cq,               \* CodeQualitySkill.analyze: its locals and where it is
    fn,               \* CodeQualitySkill: the last helper call and what it returned
    oc                \* an OllamaClient instance, its sessions and the coroutines using it

auditVars == <<pc, caller, repo_exists, skills, skill_instances, idx,
               all_findings, calls, outcome, audit>>
regVars == <<_skills, loads>>
apiVars == <<op, lastReg, got>>
standaloneVars == <<sa, avail, mock>>
skillVars == <<cq, fn>>
vars == <<_skills, loads, pc, caller, repo_exists, skills, skill_instances, idx,
          all_findings, calls, outcome, audit, op, lastReg, got, llm,
          sa, avail, mock, cq, fn, oc>>

(***************************************************************************)
(* Bounds of the model.                                                    *)
(***************************************************************************)
MaxSkillNames == 2     \* longest explicit list of skill names
MaxFindings == 1       \* most findings one analyze call returns
MaxLines == 4          \* most lines of a backend response

\* All sequences over S of length 0..n.
SeqsUpTo(S, n) == UNION {[1..k -> S] : k \in 0..n}

(***************************************************************************)
(* Skills.                                                                 *)
(***************************************************************************)
NoSkill == [name |-> "<None>", version |-> "<None>", description |-> "<None>",
            stakeholders |-> <<>>]

\* CodeQualitySkill's class attributes.
CodeQualitySkill == [name |-> "code-quality", version |-> "1.0.0",
                     description |-> "Analyzes code for complexity, smells, and maintainability",
                     stakeholders |-> <<"developer", "tech-lead">>]

\* A skill written by a user of the package: any BaseSkill subclass instance.
CustomSkill(n, v) == [name |-> n, version |-> v, description |-> "custom",
                      stakeholders |-> <<"developer">>]

\* The skills registered from outside before an audit run.
AuditPool == {CustomSkill(n, "2.0.0") : n \in {"code-quality", "architecture"}}

(***************************************************************************)
(* skills/__init__.py                                                      *)
(***************************************************************************)
Keys(reg) == {reg[i].key : i \in DOMAIN reg}

KeyIndex(reg, n) == CHOOSE i \in DOMAIN reg : reg[i].key = n

\* A bug register_skill could have: a list of skills instead of a dict.
register_skill_append(reg, s) == Append(reg, [key |-> s.name, skill |-> s])

\* _skills[skill.name] = skill: a new key goes last, an old key keeps its place.
register_skill(reg, s) ==
    IF s.name \in Keys(reg)
    THEN [reg EXCEPT ![KeyIndex(reg, s.name)] = [key |-> s.name, skill |-> s]]
    ELSE Append(reg, [key |-> s.name, skill |-> s])

\* A bug: the built-ins registered without the test of the registry.
_load_builtin_skills_always(reg) == register_skill(reg, CodeQualitySkill)

\* A bug: the built-ins never registered.
_load_builtin_skills_never(reg) == reg

\* if _skills: return; register_skill(CodeQualitySkill())
_load_builtin_skills(reg) ==
    IF reg # <<>> THEN reg ELSE register_skill(reg, CodeQualitySkill)

\* 1 when _load_builtin_skills registers the built-ins, 0 when it returns early.
LoadsBuiltins(reg) == IF reg # <<>> THEN 0 ELSE 1

\* _load_builtin_skills(); list(_skills.values())
get_available_skills(reg) ==
    LET r == _load_builtin_skills(reg)
    IN  [registry |-> r, result |-> [i \in DOMAIN r |-> r[i].skill]]

\* _skills.get(name)
DictGet(reg, n) == IF n \in Keys(reg) THEN reg[KeyIndex(reg, n)].skill ELSE NoSkill

\* _load_builtin_skills(); _skills.get(name)
get_skill_by_name(reg, n) ==
    LET r == _load_builtin_skills(reg)
    IN  [registry |-> r, result |-> DictGet(r, n)]

(***************************************************************************)
(* core/orchestrator.py                                                    *)
(***************************************************************************)
\* Settings.min_confidence, in tenths.
MinConfidence == 6

ConfidenceValues == {MinConfidence - 1, MinConfidence, 10}

ErrRepoPath == "Repository path does not exist"
ErrNoValidSkills == "No valid skills found"
ErrNoSkillsAvailable == "No skills available for analysis"
ErrSkill == "error raised by skill.analyze"

NoSkillsArg == [given |-> FALSE, names |-> <<>>]

ArgNames == {"code-quality", "architecture", "unknown"}

\* The values of run_audit's skills parameter: None or a list of names.
SkillsArgs == {NoSkillsArg} \cup
              {[given |-> TRUE, names |-> ns] : ns \in SeqsUpTo(ArgNames, MaxSkillNames)}

Finding(skill, c) == [skill_name |-> skill.name, confidence |-> c]

\* What one call of skill.analyze can do: raise, or return a list of findings.
AnalyzeOutcomes(skill) ==
    {[raised |-> TRUE, findings |-> <<>>]} \cup
    {[raised |-> FALSE, findings |-> fs] :
        fs \in SeqsUpTo({Finding(skill, c) : c \in ConfidenceValues}, MaxFindings)}

\* A bug: the existence test left out.
PathMissingIgnored(exists) == FALSE

\* if not path.exists(): raise ValueError(...)
PathMissing(exists) == ~exists

\* if skills: Python's truth value of None and of a list.
SkillsGiven(sk) == sk.given /\ sk.names # <<>>

\* [get_skill_by_name(name) for name in skills], the registry threaded through.
RECURSIVE LookupAll(_, _)
LookupAll(reg, names) ==
    IF names = <<>>
    THEN [registry |-> reg, result |-> <<>>]
    ELSE LET g == get_skill_by_name(reg, Head(names))
             rest == LookupAll(g.registry, Tail(names))
         IN  [registry |-> rest.registry, result |-> <<g.result>> \o rest.result]

\* [s for s in skill_instances if s is not None]
DropNone(ss) == SelectSeq(ss, LAMBDA s : s # NoSkill)

\* run_audit up to the loop: the error it raises ("" for none), the resolved
\* skills and the registry the lookups leave behind.
RunAuditSetup(exists, reg, sk) ==
    IF PathMissing(exists)
    THEN [registry |-> reg, error |-> ErrRepoPath, instances |-> <<>>]
    ELSE IF SkillsGiven(sk)
    THEN LET l == LookupAll(reg, sk.names)
             inst == DropNone(l.result)
         IN  IF inst = <<>>
             THEN [registry |-> l.registry, error |-> ErrNoValidSkills, instances |-> <<>>]
             ELSE [registry |-> l.registry, error |-> "", instances |-> inst]
    ELSE LET g == get_available_skills(reg)
         IN  IF g.result = <<>>
             THEN [registry |-> g.registry, error |-> ErrNoSkillsAvailable, instances |-> <<>>]
             ELSE [registry |-> g.registry, error |-> "", instances |-> g.result]

\* A bug: _run_skill without its try/except.
_run_skill_uncaught(a) == a

\* _run_skill: what reaches run_audit from one analyze call.
_run_skill(a) ==
    IF a.raised THEN [raised |-> FALSE, findings |-> <<>>] ELSE a

\* A bug: all_findings = findings.
ExtendOverwrite(all, fs) == fs

\* all_findings.extend(findings)
Extend(all, fs) == all \o fs

\* A bug: > for >=.
FilterAboveMinConfidence(fs) == SelectSeq(fs, LAMBDA f : f.confidence > MinConfidence)

\* [f for f in all_findings if f.confidence >= self.settings.min_confidence]
FilterMinConfidence(fs) == SelectSeq(fs, LAMBDA f : f.confidence >= MinConfidence)

NoOutcome == [kind |-> "none", error |-> "", findings |-> <<>>]
Raised(e) == [kind |-> "raise", error |-> e, findings |-> <<>>]
Returned(fs) == [kind |-> "return", error |-> "", findings |-> fs]

(***************************************************************************)
(* cli/audit.py: the 'audit run' command                                   *)
(***************************************************************************)
NoAudit == [status |-> "none", error_message |-> ""]

\* The --skills option: absent, or a string, held as its comma-separated
\* pieces (the empty string is the one piece "").
NoOption == [given |-> FALSE, pieces |-> <<>>]

SkillsOptions ==
    {NoOption, [given |-> TRUE, pieces |-> <<"">>]} \cup
    {[given |-> TRUE, pieces |-> ns] : ns \in SeqsUpTo(ArgNames, MaxSkillNames) \ {<<>>}}

\* skill_list = skills.split(",") if skills else None
skill_list(opt) ==
    IF opt.given /\ opt.pieces # <<"">>
    THEN [given |-> TRUE, names |-> opt.pieces]
    ELSE NoSkillsArg

\* A bug: the error not recorded.
AuditAfterRunNoMessage(o) ==
    IF o.kind = "return"
    THEN [status |-> "COMPLETED", error_message |-> ""]
    ELSE [status |-> "FAILED", error_message |-> ""]

\* The try/except around orchestrator.run_audit.
AuditAfterRun(o) ==
    IF o.kind = "return"
    THEN [status |-> "COMPLETED", error_message |-> ""]
    ELSE [status |-> "FAILED", error_message |-> o.error]

(***************************************************************************)
(* llm/client.py: OllamaClient.analyze                                     *)
(*                                                                         *)
(* A response text is the sequence of its lines (str.split on newline), a  *)
(* line one of the kinds below.                                            *)
(***************************************************************************)
Blank == ""
Fence == "<fence>"                      \* the three-backquote delimiter
FenceJson == "<fence>json"              \* the delimiter with a language tag
JsonObject == "{\"findings\": []}"      \* a document LLMFindings accepts
JsonObjectHead == "{\"findings\":"      \* the same document over two lines
JsonObjectTail == "[]}"
JsonArray == "[1]"                      \* a document LLMFindings rejects
Prose == "Here is my review"

Lines == {Blank, Fence, FenceJson, JsonObject, JsonObjectHead, JsonObjectTail,
          JsonArray, Prose}

\* line.startswith(delimiter)
IsFence(line) == line \in {Fence, FenceJson}

Contents == SeqsUpTo(Lines, MaxLines) \ {<<>>}

\* The ways generate ends: a response, or one of the errors it lets out.
GenerateOutcomes ==
    {[ok |-> TRUE, content |-> c, error |-> ""] : c \in Contents} \cup
    {[ok |-> FALSE, content |-> <<Blank>>, error |-> e] :
        e \in {"ConnectionError", "RuntimeError", "TimeoutException"}}

ResponseFormats == {"None", "LLMFindings"}

RECURSIVE DropLeadingBlank(_)
DropLeadingBlank(c) ==
    IF c # <<>> /\ Head(c) = Blank THEN DropLeadingBlank(Tail(c)) ELSE c

RECURSIVE DropTrailingBlank(_)
DropTrailingBlank(c) ==
    IF c # <<>> /\ c[Len(c)] = Blank
    THEN DropTrailingBlank(SubSeq(c, 1, Len(c) - 1)) ELSE c

\* response.content.strip(); the empty text is the empty sequence
Strip(c) == DropTrailingBlank(DropLeadingBlank(c))


\* A bug: the loop over lines[1:] without its break, so that the last later
\* fence line ends the block.
StripFenceNoBreak(c) ==
    IF c # <<>> /\ IsFence(Head(c))
    THEN LET closers == {i \in 2..Len(c) : IsFence(c[i])}
             end == IF closers = {} THEN Len(c)
                    ELSE CHOOSE i \in closers : \A j \in closers : j <= i
         IN  SubSeq(c, 2, end - 1)
    ELSE c

\* client.py 136-145: the lines after the first up to the first later fence
\* line, or up to the last line when there is none.
StripFence(c) ==
    IF c # <<>> /\ IsFence(Head(c))
    THEN LET closers == {i \in 2..Len(c) : IsFence(c[i])}
             end == IF closers = {} THEN Len(c)
                    ELSE CHOOSE i \in closers : \A j \in closers : i <= j
         IN  SubSeq(c, 2, end - 1)
    ELSE c

NonBlank(c) == SelectSeq(c, LAMBDA l : l # Blank)

\* json.loads succeeds: one JSON document, white space around it.
JsonValid(c) ==
    NonBlank(c) \in {<<JsonObject>>, <<JsonObjectHead, JsonObjectTail>>, <<JsonArray>>}

\* json.loads: the decoded value.
JsonLoads(c) == IF NonBlank(c) = <<JsonArray>> THEN "[1]" ELSE "{findings: []}"

NoResult == [kind |-> "none", value |-> "", raw_content |-> <<>>,
             parse_error |-> FALSE, error |-> ""]

\* A bug: the stripped text in place of response.content.
ParseFallbackStripped(response_content) ==
    [NoResult EXCEPT !.kind = "fallback", !.raw_content = Strip(response_content),
                     !.parse_error = TRUE]

\* except json.JSONDecodeError: return {"raw_content": response.content, "parse_error": True}
ParseFallback(response_content) ==
    [NoResult EXCEPT !.kind = "fallback", !.raw_content = response_content,
                     !.parse_error = TRUE]

\* response_format.model_validate(data): the model, or a pydantic ValidationError.
ModelValidate(data) ==
    IF data = "{findings: []}"
    THEN [NoResult EXCEPT !.kind = "model", !.value = data]
    ELSE [NoResult EXCEPT !.kind = "raise", !.error = "ValidationError"]

\* OllamaClient.analyze, given how generate ended.
analyze(response_format, gen) ==
    IF ~gen.ok
    THEN [NoResult EXCEPT !.kind = "raise", !.error = gen.error]
    ELSE LET content == StripFence(Strip(gen.content))
         IN  IF ~JsonValid(content)
             THEN ParseFallback(gen.content)
             ELSE IF response_format # "None"
             THEN ModelValidate(JsonLoads(content))
             ELSE [NoResult EXCEPT !.kind = "data", !.value = JsonLoads(content)]

NoLlm == [phase |-> "idle", response_format |-> "None",
          gen |-> [ok |-> FALSE, content |-> <<Blank>>, error |-> ""],
          result |-> NoResult]


(***************************************************************************)
(* llm/client.py: OllamaClient.is_available                                *)
(*                                                                         *)
(* A model name, a rule code or a title is the sequence of its characters. *)
(***************************************************************************)
MaxModels == 2         \* most entries of a model catalog

\* str.startswith
startswith(s, prefix) == Len(prefix) <= Len(s) /\ SubSeq(s, 1, Len(prefix)) = prefix

\* s.split(":")[0]: the characters before the first colon.
RECURSIVE SplitColon(_)
SplitColon(s) ==
    IF s = <<>> \/ Head(s) = ":" THEN <<>> ELSE <<Head(s)>> \o SplitColon(Tail(s))

\* The configured model: with a tag, without one, with an empty base name.
ModelNames == {<<"q", "w", ":", "7">>, <<"q", "w">>, <<"l", "l">>, <<":", "7">>}

\* A catalog entry that has no "name" key.
NoName == <<"<missing>">>

\* How GET /api/tags can fail before its entries are read: no connection,
\* an error status, a body that is not JSON, JSON that is no object.
CatalogFailures == {"ConnectError", "HTTPStatusError", "JSONDecodeError", "not_object"}

\* What GET /api/tags does: it fails, or answers an object without a
\* "models" key, or an object listing entries, with names or without.
Catalogs ==
    {[kind |-> k, models |-> <<>>] : k \in CatalogFailures \cup {"no_models"}} \cup
    {[kind |-> "object", models |-> ms] :
        ms \in SeqsUpTo({<<"q", "w", ":", "7">>, <<"q", "w", "x", ":", "1">>, <<"q">>,
                         <<"l", "l", ":", "1">>, NoName}, MaxModels)}

\* How a call ends: with a value, or with an exception.
Value(v) == [raised |-> FALSE, error |-> "", value |-> v]
Raise(e) == [raised |-> TRUE, error |-> e, value |-> <<>>]

\* client.py 160-172, the body of the try: the exception it ends with, or
\* the value of any(...).
is_available_body(model, catalog) ==
    IF catalog.kind \in {"ConnectError", "HTTPStatusError", "JSONDecodeError"}
    THEN Raise(catalog.kind)
    ELSE IF catalog.kind = "not_object"
    THEN Raise("AttributeError")
    ELSE IF \E i \in DOMAIN catalog.models : catalog.models[i] = NoName
    THEN Raise("KeyError")
    ELSE LET model_base == SplitColon(model)
         IN  Value(\E i \in DOMAIN catalog.models :
                       startswith(catalog.models[i], model_base))

\* A bug: is_available without its try/except.
is_available_uncaught(model, catalog) == is_available_body(model, catalog)

\* OllamaClient.is_available: except Exception: return False
is_available(model, catalog) ==
    LET r == is_available_body(model, catalog)
    IN  IF r.raised THEN Value(FALSE) ELSE r

NoAvail == [called |-> FALSE, model |-> <<>>,
            catalog |-> [kind |-> "none", models |-> <<>>], result |-> Value(FALSE)]

(***************************************************************************)
(* core/standalone.py: MockLLMClient and run_standalone_analysis           *)
(***************************************************************************)
\* MockLLMClient's three methods, whatever the arguments.
MockLLMClient(method, args) ==
    CASE method = "analyze" -> Value([findings |-> <<>>, skipped |-> TRUE])
      [] method = "generate" -> Raise("LLM disabled")
      [] method = "is_available" -> Value(FALSE)

NoMock == [method |-> "none", args |-> <<>>, result |-> Value(<<>>)]

\* A bug: the real client kept when the backend is not available.
llm_client_unchecked(use_llm, available) ==
    IF use_llm THEN "OllamaClient" ELSE "MockLLMClient"

\* standalone.py 47-57: the client the skills are given.
llm_client(use_llm, available) ==
    IF use_llm
    THEN IF ~available THEN "MockLLMClient" ELSE "OllamaClient"
    ELSE "MockLLMClient"

\* standalone.py 60-67: the error raised ("" for none), the resolved skills
\* and the registry the lookups leave behind.
StandaloneSkills(reg, sk) ==
    LET r == IF SkillsGiven(sk)
             THEN LET l == LookupAll(reg, sk.names)
                  IN  [registry |-> l.registry, instances |-> DropNone(l.result)]
             ELSE LET g == get_available_skills(reg)
                  IN  [registry |-> g.registry, instances |-> g.result]
    IN  [registry |-> r.registry, instances |-> r.instances,
         error |-> IF r.instances = <<>> THEN ErrNoSkillsAvailable ELSE ""]

NoReport == [kind |-> "none", error |-> "", findings |-> <<>>, skills_run |-> <<>>]

\* The report: _format_json and _format_markdown print these two lists.
Report(findings, skills_run) ==
    [NoReport EXCEPT !.kind = "return", !.findings = findings,
                     !.skills_run = skills_run]

NoStandalone == [phase |-> "idle", use_llm |-> FALSE, asked |-> FALSE,
                 available |-> FALSE, llm_client |-> "none",
                 skill_instances |-> <<>>, idx |-> 1, all_findings |-> <<>>,
                 skills_run |-> <<>>, given |-> <<>>, outcome |-> NoReport]

(***************************************************************************)
(* db/models.py and skills/base.py: enumerations and create_finding        *)
(*                                                                         *)
(* Severity, FindingSource and EffortEstimate are str enumerations: a      *)
(* member is held as its value, the lower-case string.                     *)
(***************************************************************************)
Severity == {"critical", "high", "medium", "low", "info"}
FindingSource == {"static", "llm", "combined"}
EffortEstimate == {"trivial", "small", "medium", "large"}

\* A bug: the string taken as it is.
LowerNot(s) == s

\* str.lower, on the strings the callers below pass.
Lower(s) ==
    CASE s = "CRITICAL" -> "critical"
      [] s = "HIGH" -> "high"
      [] s = "High" -> "high"
      [] s = "LLM" -> "llm"
      [] s = "Static" -> "static"
      [] s = "SMALL" -> "small"
      [] s = "Large" -> "large"
      [] s = "Urgent" -> "urgent"
      [] OTHER -> s

\* None, for effort_estimate and for start_line.
NoEffort == "<None>"
NoLine == 0

\* What a call of create_finding ends with when an enumeration rejects its
\* string: a ValueError.
ValueErrorRaised ==
    [skill_name |-> "<ValueError>", severity |-> "", category |-> "", title |-> <<>>,
     file_path |-> "", line_start |-> NoLine, effort_estimate |-> NoEffort,
     source |-> "", confidence |-> 0, stakeholders |-> <<>>]

\* BaseSkill.create_finding.  description, line_end, code_snippet,
\* recommendation and metadata are stored as given and left out here.
create_finding(self, title, severity, category, file_path, line_start, effort_estimate, source, confidence) ==
    LET sev == Lower(severity)
        src == Lower(source)
        eff == IF effort_estimate = NoEffort THEN NoEffort ELSE Lower(effort_estimate)
    IN  IF \/ sev \notin Severity
           \/ src \notin FindingSource
           \/ eff \notin EffortEstimate \cup {NoEffort}
        THEN ValueErrorRaised
        ELSE [skill_name |-> self.name, severity |-> sev, category |-> category,
              title |-> title, file_path |-> file_path, line_start |-> line_start,
              effort_estimate |-> eff, source |-> src, confidence |-> confidence,
              stakeholders |-> self.stakeholders]

(***************************************************************************)
(* skills/code_quality/skill.py: CodeQualitySkill                          *)
(***************************************************************************)
MaxIssues == 2         \* most issues the linter reports
MaxFiles == 2          \* most files the complexity tool reports
MaxDedup == 3          \* longest list handed to _deduplicate directly
MaxManyFiles == 7      \* files of a large repository's complexity report

\* Settings.complexity_threshold
ComplexityThreshold == 10
\* high_complexity_files[:5]
MaxLlmFiles == 5
\* finding.title[:50]
TitleKeyLength == 50

\* t[:n]
Slice(t, n) == SubSeq(t, 1, IF Len(t) < n THEN Len(t) ELSE n)

\* Rule codes of the linter; none is the code of an issue without the key.
RuleCode ==
    [E501 |-> <<"E", "5", "0", "1">>,
     F841 |-> <<"F", "8", "4", "1">>,
     F401 |-> <<"F", "4", "0", "1">>,
     ZZ1 |-> <<"Z", "Z", "1">>,
     ERA001 |-> <<"E", "R", "A", "0", "0", "1">>,
     ARG001 |-> <<"A", "R", "G", "0", "0", "1">>,
     TRY003 |-> <<"T", "R", "Y", "0", "0", "3">>,
     PLR0913 |-> <<"P", "L", "R", "0", "9", "1", "3">>,
     UP006 |-> <<"U", "P", "0", "0", "6">>,
     none |-> <<>>]

\* "code": null, as the linter reports a syntax error
NullCode == <<"<None>">>

\* RUFF_SEVERITY_MAP, in the order of the dict literal.
RUFF_SEVERITY_MAP ==
    << [prefix |-> <<"E">>, severity |-> "medium"],
       [prefix |-> <<"W">>, severity |-> "low"],
       [prefix |-> <<"F">>, severity |-> "high"],
       [prefix |-> <<"C">>, severity |-> "medium"],
       [prefix |-> <<"I">>, severity |-> "low"],
       [prefix |-> <<"N">>, severity |-> "low"],
       [prefix |-> <<"D">>, severity |-> "low"],
       [prefix |-> <<"U", "P">>, severity |-> "low"],
       [prefix |-> <<"B">>, severity |-> "medium"],
       [prefix |-> <<"A">>, severity |-> "medium"],
       [prefix |-> <<"S">>, severity |-> "high"],
       [prefix |-> <<"T">>, severity |-> "low"],
       [prefix |-> <<"Q">>, severity |-> "low"],
       [prefix |-> <<"A", "R", "G">>, severity |-> "low"],
       [prefix |-> <<"P", "T", "H">>, severity |-> "low"],
       [prefix |-> <<"E", "R", "A">>, severity |-> "low"],
       [prefix |-> <<"P", "L">>, severity |-> "medium"],
       [prefix |-> <<"T", "R", "Y">>, severity |-> "medium"],
       [prefix |-> <<"R", "U", "F">>, severity |-> "medium"] >>

\* _get_ruff_severity: the first entry, in dict order, whose prefix the code
\* starts with.
_get_ruff_severity(code) ==
    LET hits == {i \in DOMAIN RUFF_SEVERITY_MAP :
                    startswith(code, RUFF_SEVERITY_MAP[i].prefix)}
    IN  IF hits = {} THEN "medium"
        ELSE RUFF_SEVERITY_MAP[CHOOSE i \in hits : \A j \in hits : i <= j].severity

\* The files of the repository, as both tools name them.
FilePaths == <<"f1.py", "f2.py", "f3.py", "f4.py", "f5.py", "f6.py", "f7.py", "f8.py">>

\* Issues of the linter's report; the last is a syntax error.
Issue ==
    [E501 |-> [code |-> RuleCode.E501, message |-> <<"l", "o", "n", "g">>,
               filename |-> FilePaths[1], row |-> 1],
     F841 |-> [code |-> RuleCode.F841, message |-> <<"u", "n", "u", "s", "e", "d">>,
               filename |-> FilePaths[1], row |-> 2],
     ARG001 |-> [code |-> RuleCode.ARG001, message |-> <<"a", "r", "g">>,
                 filename |-> FilePaths[2], row |-> 1],
     syntax |-> [code |-> NullCode, message |-> <<"s", "y", "n", "t", "a", "x">>,
                 filename |-> FilePaths[2], row |-> 3]]

\* The exceptions _run_ruff and _calculate_complexity catch: the tool
\* cannot be started, it times out, its output is not JSON.
ToolFailures == {"FileNotFoundError", "TimeoutExpired", "JSONDecodeError"}

NoToolRun == [kind |-> "none", report |-> <<>>]

\* How the linter's process ends: with a failure, or printing nothing, JSON
\* that is no list, or a list of issues.
RuffRuns ==
    {[kind |-> k, report |-> <<>>] : k \in ToolFailures \cup {"empty", "not_list"}} \cup
    {[kind |-> "list", report |-> is] :
        is \in SeqsUpTo({Issue[k] : k \in DOMAIN Issue}, MaxIssues)}

\* skill.py 121-135: the finding of one issue.
RuffFinding(self, issue) ==
    create_finding(self, issue.message, _get_ruff_severity(issue.code), "linting",
                   issue.filename, issue.row, NoEffort, "static", 10)

\* A bug: the findings collected in reverse.
_run_ruff_reversed(self, run) ==
    IF run.kind = "list" /\ \A i \in DOMAIN run.report : run.report[i].code # NullCode
    THEN Value([i \in DOMAIN run.report |->
                   RuffFinding(self, run.report[Len(run.report) + 1 - i])])
    ELSE Value(<<>>)

\* _run_ruff.  Of the exceptions of its try block it catches three; None has
\* no startswith and a str has no get, and that AttributeError gets out.
_run_ruff(self, run) ==
    IF run.kind \in ToolFailures \cup {"empty"}
    THEN Value(<<>>)
    ELSE IF run.kind = "not_list"
    THEN Raise("AttributeError")
    ELSE IF \E i \in DOMAIN run.report : run.report[i].code = NullCode
    THEN Raise("AttributeError")
    ELSE Value([i \in DOMAIN run.report |-> RuffFinding(self, run.report[i])])

\* The value the complexity report holds for a file: a list of function
\* records, or the object {"error": ...} for a file the tool cannot parse.
FileValues ==
    {[is_list |-> TRUE, functions |-> <<>>],
     [is_list |-> TRUE,
      functions |-> <<[complexity |-> 8, lineno |-> 1, endline |-> 5],
                      [complexity |-> 2, lineno |-> 7, endline |-> 9]>>],
     [is_list |-> TRUE,
      functions |-> <<[complexity |-> 8, lineno |-> 1, endline |-> 5],
                      [complexity |-> 3, lineno |-> 7, endline |-> 9]>>],
     [is_list |-> FALSE, functions |-> <<>>]}

\* How the complexity tool's process ends: with a failure, or printing
\* nothing, JSON that is no object, or an object of files.
RadonRuns ==
    {[kind |-> k, report |-> <<>>] : k \in ToolFailures \cup {"empty", "not_object"}} \cup
    {[kind |-> "object",
      report |-> [i \in DOMAIN vs |-> [file_path |-> FilePaths[i], value |-> vs[i]]]] :
        vs \in SeqsUpTo(FileValues, MaxFiles)}

\* Complexity reports of a repository of MaxManyFiles files, each of one
\* function: at the threshold, just over it, or far over it.
ManyRadonRuns ==
    {[kind |-> "object",
      report |-> [i \in 1..MaxManyFiles |->
                     [file_path |-> FilePaths[i],
                      value |-> [is_list |-> TRUE,
                                 functions |-> <<[complexity |-> cs[i], lineno |-> 1,
                                                  endline |-> 5]>>]]]] :
        cs \in [1..MaxManyFiles -> {ComplexityThreshold, ComplexityThreshold + 1,
                                    ComplexityThreshold + 9}]}

\* sum(f.get("complexity", 0) for f in functions)
RECURSIVE SumComplexity(_)
SumComplexity(fs) ==
    IF fs = <<>> THEN 0 ELSE Head(fs).complexity + SumComplexity(Tail(fs))

\* A bug: the lines of a function counted with both ends.
RECURSIVE SumLinesInclusive(_)
SumLinesInclusive(fs) ==
    IF fs = <<>> THEN 0
    ELSE (Head(fs).endline - Head(fs).lineno + 1) + SumLinesInclusive(Tail(fs))

\* sum(f.get("endline", 0) - f.get("lineno", 0) for f in functions)
RECURSIVE SumLines(_)
SumLines(fs) ==
    IF fs = <<>> THEN 0 ELSE (Head(fs).endline - Head(fs).lineno) + SumLines(Tail(fs))

ComplexityMetrics(file) ==
    [file_path |-> file.file_path, cyclomatic |-> SumComplexity(file.value.functions),
     loc |-> SumLines(file.value.functions), functions |-> file.value.functions]

\* _calculate_complexity.  A list has no items and a str has no get: that
\* AttributeError is not one of the three exceptions caught.
_calculate_complexity(run) ==
    IF run.kind \in ToolFailures \cup {"empty"}
    THEN Value(<<>>)
    ELSE IF run.kind = "not_object"
    THEN Raise("AttributeError")
    ELSE IF \E i \in DOMAIN run.report : ~run.report[i].value.is_list
    THEN Raise("AttributeError")
    ELSE LET kept == SelectSeq(run.report, LAMBDA f : f.value.functions # <<>>)
         IN  Value([i \in DOMAIN kept |-> ComplexityMetrics(kept[i])])

\* A bug: a file at the threshold selected as well.
high_complexity_files_inclusive(complexity_metrics) ==
    SelectSeq(complexity_metrics, LAMBDA m : m.cyclomatic >= ComplexityThreshold)

\* [m for m in complexity_metrics if m.cyclomatic > context.config.complexity_threshold]
high_complexity_files(complexity_metrics) ==
    SelectSeq(complexity_metrics, LAMBDA m : m.cyclomatic > ComplexityThreshold)

\* Titles: the last two have more than fifty characters and agree on the
\* first fifty.
Title ==
    [nesting |-> <<"n", "e", "s", "t">>,
     longA |-> [i \in 1..TitleKeyLength |-> "x"] \o <<"a">>,
     longB |-> [i \in 1..TitleKeyLength |-> "x"] \o <<"b">>]

\* LLMFinding: an entry of the validated response.
LLMFinding(title, severity, start_line, effort, confidence) ==
    [title |-> title, severity |-> severity, start_line |-> start_line,
     effort |-> effort, confidence |-> confidence]

\* LLMFindings: the validated response.
LLMFindings(fs) == [kind |-> "model", findings |-> fs]

\* One deep analysis: how context.read_file ends, and what llm.analyze does
\* after it: it raises, or returns the fallback dict, the no-op client's
\* dict, or an LLMFindings.
LlmOutcomes ==
    {[read |-> r, reply |-> [kind |-> "none", findings |-> <<>>]] :
        r \in {"FileNotFoundError", "PermissionError"}} \cup
    {[read |-> "ok", reply |-> [kind |-> k, findings |-> <<>>]] :
        k \in {"raise", "fallback", "skipped"}} \cup
    {[read |-> "ok", reply |-> LLMFindings(fs)] :
        fs \in {<<>>,
                <<LLMFinding(Title.nesting, "high", 10, "medium", 8)>>,
                <<LLMFinding(Title.nesting, "CRITICAL", NoLine, "huge", 15)>>,
                <<LLMFinding(Issue.E501.message, "low", 1, "small", 5)>>,
                <<LLMFinding(Title.longA, "Urgent", 3, "Large", 9),
                  LLMFinding(Title.longB, "info", 3, "trivial", 7)>>}}

\* effort_map.get(effort.lower(), EffortEstimate.MEDIUM)
_parse_effort(effort) ==
    IF Lower(effort) \in EffortEstimate THEN Lower(effort) ELSE "medium"

\* severity_map.get(severity.lower(), Severity.MEDIUM)
_parse_severity(severity) ==
    IF Lower(severity) \in Severity THEN Lower(severity) ELSE "medium"

\* A bug: a finding made of whatever the client returned, the isinstance
\* test left out.
_analyze_with_llm_unchecked(self, metrics, o) ==
    IF o.read # "ok" \/ o.reply.kind = "raise"
    THEN Value(<<>>)
    ELSE Value(<<create_finding(self, Title.nesting, "medium", "complexity",
                                metrics.file_path, NoLine, NoEffort, "llm", 5)>>)

\* _analyze_with_llm: FileNotFoundError of read_file and every Exception of
\* llm.analyze end in no findings; another error of read_file gets out.
_analyze_with_llm(self, metrics, o) ==
    IF o.read = "FileNotFoundError"
    THEN Value(<<>>)
    ELSE IF o.read # "ok"
    THEN Raise(o.read)
    ELSE IF o.reply.kind = "model"
    THEN Value([j \in DOMAIN o.reply.findings |->
                   LET llm_finding == o.reply.findings[j]
                   IN  create_finding(self, llm_finding.title,
                                      _parse_severity(llm_finding.severity),
                                      "complexity", metrics.file_path,
                                      llm_finding.start_line,
                                      _parse_effort(llm_finding.effort), "llm",
                                      llm_finding.confidence)])
    ELSE Value(<<>>)

\* key = (finding.file_path, finding.line_start, finding.title[:50])
DedupKey(finding) ==
    <<finding.file_path, finding.line_start, Slice(finding.title, TitleKeyLength)>>

\* The loop of _deduplicate, seen being the keys met so far.
RECURSIVE Unique(_, _)
Unique(findings, seen) ==
    IF findings = <<>>
    THEN <<>>
    ELSE IF DedupKey(Head(findings)) \in seen
    THEN Unique(Tail(findings), seen)
    ELSE <<Head(findings)>> \o Unique(Tail(findings), seen \cup {DedupKey(Head(findings))})

\* A bug: unique.insert(0, finding) for unique.append(finding).
_deduplicate_prepend(findings) ==
    LET unique == Unique(findings, {})
    IN  [i \in DOMAIN unique |-> unique[Len(unique) + 1 - i]]

\* A bug: the last finding of a key kept instead of the first.
_deduplicate_keep_last(findings) ==
    LET rev(t) == [i \in DOMAIN t |-> t[Len(t) + 1 - i]]
    IN  rev(Unique(rev(findings), {}))

\* CodeQualitySkill._deduplicate
_deduplicate(findings) == Unique(findings, {})

\* Findings handed to _deduplicate directly: the first two share a key and
\* differ in title and severity.
DedupFindings ==
    << create_finding(CodeQualitySkill, Title.longA, "high", "linting", FilePaths[1],
                      1, NoEffort, "static", 10),
       create_finding(CodeQualitySkill, Title.longB, "low", "complexity", FilePaths[1],
                      1, "small", "llm", 8),
       create_finding(CodeQualitySkill, Title.nesting, "medium", "complexity",
                      FilePaths[1], 2, "medium", "llm", 7) >>

NoRun == [phase |-> "idle", ruff |-> NoToolRun, radon |-> NoToolRun,
          ruff_findings |-> <<>>, findings |-> <<>>, complexity_metrics |-> <<>>,
          high_complexity_files |-> <<>>, i |-> 1, analyzed |-> <<>>,
          outcomes |-> <<>>, result |-> <<>>, error |-> ""]

NoCall == [kind |-> "none", arg |-> <<>>, result |-> <<>>]

(***************************************************************************)
(* llm/client.py: the HTTP session of an OllamaClient                      *)
(*                                                                         *)
(* A session is a number, its place in the list of the sessions created;   *)
(* the list holds for each whether it is open or closed.  Coroutines of    *)
(* one event loop call the client; each makes one call.                    *)
(***************************************************************************)
MaxCoroutines == 3     \* coroutines calling one client

Coroutines == 1..MaxCoroutines

\* self._client = None
NoSession == 0

\* The methods that start with client = await self._get_client().
SessionMethods == {"generate", "is_available", "ensure_model"}

\* OllamaClient.__init__, and no coroutine started.
NoOllama ==
    [_client |-> NoSession, sessions |-> <<>>,
     co |-> [p \in Coroutines |->
                [op |-> "none", pc |-> "idle", client |-> NoSession,
                 handed_closed |-> FALSE, result |-> ""]]]

\* A bug: a session created at every call.
_get_client_always_new(c) ==
    [_client |-> Len(c.sessions) + 1, sessions |-> Append(c.sessions, "open"),
     result |-> Len(c.sessions) + 1]

\* OllamaClient._get_client: it has no await and runs without suspending.
_get_client(c) ==
    IF c._client = NoSession
    THEN [_client |-> Len(c.sessions) + 1, sessions |-> Append(c.sessions, "open"),
          result |-> Len(c.sessions) + 1]
    ELSE [_client |-> c._client, sessions |-> c.sessions, result |-> c._client]

(***************************************************************************)
(* The audit process: registrations, then one run.                         *)
(***************************************************************************)
NoOp == [kind |-> "none", skill |-> NoSkill, name |-> "", result |-> <<>>]

Init ==
    /\ _skills = <<>>
    /\ loads = 0
    /\ pc = "idle"
    /\ caller = "none"
    /\ repo_exists = TRUE
    /\ skills = NoSkillsArg
    /\ skill_instances = <<>>
    /\ idx = 1
    /\ all_findings = <<>>
    /\ calls = <<>>
    /\ outcome = NoOutcome
    /\ audit = NoAudit
    /\ op = NoOp
    /\ lastReg = [n \in {} |-> NoSkill]
    /\ got = FALSE
    /\ llm = NoLlm
    /\ sa = NoStandalone
    /\ avail = NoAvail
    /\ mock = NoMock
    /\ cq = NoRun
    /\ fn = NoCall
    /\ oc = NoOllama

\* register_skill called by the embedding program before the run.
SetupRegister(s) ==
    /\ pc = "idle"
    /\ _skills' = register_skill(_skills, s)
    /\ UNCHANGED <<loads, auditVars, apiVars, llm, standaloneVars, skillVars, oc>>

\* get_available_skills called before the run.
SetupList ==
    /\ pc = "idle"
    /\ _skills' = get_available_skills(_skills).registry
    /\ loads' = loads + LoadsBuiltins(_skills)
    /\ UNCHANGED <<auditVars, apiVars, llm, standaloneVars, skillVars, oc>>

\* audit.py 36-53: the project is looked up and the Audit record created.
AuditRunCommand(found, exists, opt) ==
    /\ pc = "idle"
    /\ caller' = "cli"
    /\ IF found
       THEN /\ audit' = [status |-> "PENDING", error_message |-> ""]
            /\ skills' = skill_list(opt)
            /\ repo_exists' = exists
            /\ pc' = "pending"
       ELSE /\ pc' = "done"
            /\ UNCHANGED <<audit, skills, repo_exists, oc>>
    /\ UNCHANGED <<regVars, skill_instances, idx, all_findings, calls, outcome,
                   apiVars, llm, standaloneVars, skillVars, oc>>

\* audit.py 56-60: Orchestrator(), status RUNNING, flush.
AuditMarkRunning ==
    /\ pc = "pending"
    /\ audit' = [audit EXCEPT !.status = "RUNNING"]
    /\ pc' = "call"
    /\ UNCHANGED <<regVars, caller, repo_exists, skills, skill_instances, idx,
                   all_findings, calls, outcome, apiVars, llm, standaloneVars, skillVars, oc>>

\* Orchestrator.run_audit called by a program of its own.
ApiRunAudit(exists, sk) ==
    /\ pc = "idle"
    /\ caller' = "api"
    /\ repo_exists' = exists
    /\ skills' = sk
    /\ pc' = "call"
    /\ UNCHANGED <<regVars, skill_instances, idx, all_findings, calls, outcome,
                   audit, apiVars, llm, standaloneVars, skillVars, oc>>

\* orchestrator.py 37-60: path test, skill resolution, context, empty list.
RunAuditEnter ==
    /\ pc = "call"
    /\ LET r == RunAuditSetup(repo_exists, _skills, skills)
       IN  /\ _skills' = r.registry
           /\ loads' = loads + (IF r.registry # _skills THEN 1 ELSE 0)
           /\ IF r.error # ""
              THEN /\ outcome' = Raised(r.error)
                   /\ pc' = "after"
                   /\ UNCHANGED <<skill_instances, idx, all_findings, oc>>
              ELSE /\ skill_instances' = r.instances
                   /\ idx' = 1
                   /\ all_findings' = <<>>
                   /\ pc' = "loop"
                   /\ UNCHANGED outcome
    /\ UNCHANGED <<caller, repo_exists, skills, calls, audit, apiVars, llm,
                   standaloneVars, skillVars, oc>>

\* orchestrator.py 62-64: one turn of the loop, the awaited analyze included.
RunSkill(a) ==
    /\ pc = "loop"
    /\ idx <= Len(skill_instances)
    /\ a \in AnalyzeOutcomes(skill_instances[idx])
    /\ calls' = Append(calls, [skill |-> skill_instances[idx], raised |-> a.raised,
                               findings |-> a.findings])
    /\ LET r == _run_skill(a)
       IN  IF r.raised
           THEN /\ outcome' = Raised(ErrSkill)
                /\ pc' = "after"
                /\ UNCHANGED <<idx, all_findings, oc>>
           ELSE /\ all_findings' = Extend(all_findings, r.findings)
                /\ idx' = idx + 1
                /\ UNCHANGED <<outcome, pc, oc>>
    /\ UNCHANGED <<regVars, caller, repo_exists, skills, skill_instances, audit,
                   apiVars, llm, standaloneVars, skillVars, oc>>

\* orchestrator.py 66-71: filter and return.
RunAuditReturn ==
    /\ pc = "loop"
    /\ idx > Len(skill_instances)
    /\ outcome' = Returned(FilterMinConfidence(all_findings))
    /\ pc' = "after"
    /\ UNCHANGED <<regVars, caller, repo_exists, skills, skill_instances, idx,
                   all_findings, calls, audit, apiVars, llm, standaloneVars, skillVars, oc>>

\* audit.py 62-86: the command's try/except around run_audit.
AuditFinish ==
    /\ pc = "after"
    /\ caller = "cli"
    /\ audit' = AuditAfterRun(outcome)
    /\ pc' = "done"
    /\ UNCHANGED <<regVars, caller, repo_exists, skills, skill_instances, idx,
                   all_findings, calls, outcome, apiVars, llm, standaloneVars, skillVars, oc>>

Next ==
    \/ \E s \in AuditPool : SetupRegister(s)
    \/ SetupList
    \/ \E found \in BOOLEAN, exists \in BOOLEAN, opt \in SkillsOptions :
           AuditRunCommand(found, exists, opt)
    \/ AuditMarkRunning
    \/ \E exists \in BOOLEAN, sk \in SkillsArgs : ApiRunAudit(exists, sk)
    \/ RunAuditEnter
    \/ \E a \in UNION {AnalyzeOutcomes(s) : s \in AuditPool \cup {CodeQualitySkill}} :
           RunSkill(a)
    \/ RunAuditReturn
    \/ AuditFinish

Spec == Init /\ [][Next]_vars

(***************************************************************************)
(* Properties of a run.                                                    *)
(***************************************************************************)
SetupErrors == {ErrRepoPath, ErrNoValidSkills, ErrNoSkillsAvailable}

Ended == outcome.kind # "none"

\* The findings of the calls that did not raise, in call order.
RECURSIVE ReturnedFindings(_)
ReturnedFindings(cs) ==
    IF cs = <<>> THEN <<>>
    ELSE (IF Head(cs).raised THEN <<>> ELSE Head(cs).findings) \o ReturnedFindings(Tail(cs))

Range(f) == {f[i] : i \in DOMAIN f}

\* C1: failure isolation. Once the skills are resolved the calls made are the
\* resolved skills in selection order, one call each; the run can only end by
\* returning, after every skill was called, and returns the findings of the
\* calls that did not raise, in call order, without those below the floor.
C1_FailureIsolation ==
    (repo_exists /\ skill_instances # <<>>) =>
        /\ Len(calls) <= Len(skill_instances)
        /\ \A i \in DOMAIN calls : calls[i].skill = skill_instances[i]
        /\ pc = "loop" => Len(calls) = idx - 1
        /\ Ended =>
            /\ outcome.kind = "return"
            /\ Len(calls) = Len(skill_instances)
            /\ outcome.findings =
                   SelectSeq(ReturnedFindings(calls),
                             LAMBDA f : f.confidence >= MinConfidence)

\* One skill raised, another returned a finding that is kept, the run returned.
C1_Witness ==
    /\ outcome.kind = "return"
    /\ Len(calls) = 2
    /\ calls[1].raised
    /\ ~calls[2].raised
    /\ calls[1].skill # calls[2].skill
    /\ outcome.findings # <<>>

\* C2: confidence floor. Every returned finding is at or above the floor, every
\* finding at or above the floor that a call returned is in the result, and
\* until the last skill has completed nothing is filtered.
C2_ConfidenceFloor ==
    /\ outcome.kind = "return" =>
        /\ \A i \in DOMAIN outcome.findings :
               outcome.findings[i].confidence >= MinConfidence
        /\ \A i \in DOMAIN calls :
               ~calls[i].raised =>
                   \A j \in DOMAIN calls[i].findings :
                       calls[i].findings[j].confidence >= MinConfidence
                           => calls[i].findings[j] \in Range(outcome.findings)
    /\ pc = "loop" => Range(all_findings) = Range(ReturnedFindings(calls))

\* A finding exactly at the floor is returned, one below it is dropped.
C2_Witness ==
    /\ outcome.kind = "return"
    /\ \E i \in DOMAIN outcome.findings : outcome.findings[i].confidence = MinConfidence
    /\ \E i \in DOMAIN calls : \E j \in DOMAIN calls[i].findings :
           calls[i].findings[j].confidence < MinConfidence

\* C3: with a repo_path that does not exist no skill is ever called, and the
\* run can only end by raising 'Repository path does not exist'.
C3_MissingRepoPath ==
    (caller # "none" /\ ~repo_exists) =>
        /\ calls = <<>>
        /\ pc # "loop"
        /\ Ended => outcome = Raised(ErrRepoPath)

\* A missing path, a valid explicit skill list, a non-empty registry, and the error.
C3_Witness ==
    /\ ~repo_exists
    /\ outcome = Raised(ErrRepoPath)
    /\ skills.given /\ skills.names # <<>>
    /\ \A i \in DOMAIN skills.names : skills.names[i] \in Keys(_skills)

\* The registered skills named in a list, unknown names dropped.
NamedSkills(reg, names) ==
    LET known == SelectSeq(names, LAMBDA n : n \in Keys(reg))
    IN  [i \in DOMAIN known |-> DictGet(reg, known[i])]

\* C4: skill resolution. With an explicit list, of any length, the skills run
\* are the registered skills the list names, and the run fails with 'No valid
\* skills found' when it names none; all registered skills are run only when
\* the list is absent.
C4_SkillResolution ==
    (repo_exists /\ (pc = "loop" \/ Ended)) =>
        IF skills.given
        THEN IF NamedSkills(_skills, skills.names) = <<>>
             THEN outcome = Raised(ErrNoValidSkills)
             ELSE skill_instances = NamedSkills(_skills, skills.names)
        ELSE skill_instances = [i \in DOMAIN _skills |-> _skills[i].skill]

\* C5: only setup errors abort a run. A run ends by returning or by raising a
\* setup error; an error is raised before any analyze call; no analyze error
\* escapes.
C5_OnlySetupErrorsAbort ==
    /\ outcome.kind \in {"none", "return", "raise"}
    /\ outcome.kind = "raise" => /\ outcome.error \in SetupErrors
                                 /\ calls = <<>>
    /\ (\E i \in DOMAIN calls : calls[i].raised) => outcome.kind # "raise"

\* Every skill of a run raised and the run returned the empty list.
C5_Witness ==
    /\ outcome = Returned(<<>>)
    /\ calls # <<>>
    /\ \A i \in DOMAIN calls : calls[i].raised

\* The status changes the command may make, with what must hold when made.
AuditStatusStep ==
    \/ audit'.status = audit.status
    \/ audit.status = "none" /\ audit'.status = "PENDING"
    \/ audit.status = "PENDING" /\ audit'.status = "RUNNING" /\ calls = <<>> /\ ~Ended
    \/ audit.status = "RUNNING" /\ audit'.status = "COMPLETED" /\ outcome.kind = "return"
    \/ /\ audit.status = "RUNNING" /\ audit'.status = "FAILED"
       /\ outcome.kind = "raise"
       /\ audit'.error_message = outcome.error

AuditStatusInv ==
    /\ (caller = "cli" /\ pc = "pending") => audit.status = "PENDING"
    /\ (caller = "cli" /\ pc \in {"call", "loop", "after"}) => audit.status = "RUNNING"
    /\ (caller = "cli" /\ pc = "done" /\ audit.status # "none") =>
           audit.status = (IF outcome.kind = "return" THEN "COMPLETED" ELSE "FAILED")
    /\ audit.status = "FAILED" =>
           /\ calls = <<>>
           /\ audit.error_message \in SetupErrors

\* C6: the audit record goes none -> PENDING -> RUNNING before run_audit is
\* entered, then to COMPLETED when run_audit returned or to FAILED, with the
\* error recorded, when it raised; nothing else; a skill's failure inside
\* run_audit never gives FAILED.
C6_AuditStatusMachine == [][AuditStatusStep]_vars /\ []AuditStatusInv

\* An audit COMPLETED although one of its skills raised.
C6_Witness ==
    /\ audit.status = "COMPLETED"
    /\ \E i \in DOMAIN calls : calls[i].raised


\* C29: after a call of get_available_skills or get_skill_by_name the
\* registry is not empty; run_audit without a skills argument resolves at
\* least one skill and never raises 'No skills available for analysis'; with
\* a non-empty list the only error of the resolution is 'No valid skills
\* found'.
C29_RegistryNeverEmptyAfterLoad ==
    /\ outcome.error # ErrNoSkillsAvailable
    /\ (repo_exists /\ (pc = "loop" \/ Ended)) =>
           /\ _skills # <<>>
           /\ ~skills.given => skill_instances # <<>> /\ outcome.kind # "raise"
           /\ (skills.given /\ skills.names # <<>> /\ outcome.kind = "raise") =>
                  outcome.error = ErrNoValidSkills

\* Nothing was registered; the run without a skills argument loaded the
\* built-in and ran it.
C29_Witness ==
    /\ ~skills.given
    /\ repo_exists
    /\ loads = 1
    /\ outcome.kind = "return"
    /\ skill_instances = <<CodeQualitySkill>>
    /\ Len(calls) = 1
(***************************************************************************)
(* The registry as its callers see it: any sequence of register_skill,     *)
(* get_available_skills, get_skill_by_name and validate_skill calls.       *)
(***************************************************************************)
\* Skills handed to register_skill: the name may be empty or the built-in's.
RegistryPool == {CustomSkill(n, v) : n \in {"", "code-quality", "architecture"},
                                     v \in {"2.0.0", "3.0.0"}}

\* Skills handed to validate_skill: every field may be empty.
ValidatePool == [name : {"", "architecture"}, version : {"", "2.0.0"},
                 description : {"", "custom"},
                 stakeholders : {<<>>, <<"developer">>}]

LookupNames == {"", "code-quality", "architecture", "unknown"}

\* A bug: elif for the later tests, so only the first issue is reported.
validate_skill_first_issue(s) ==
    IF s.name = "" THEN <<"Skill has no name">>
    ELSE IF s.version = "" THEN <<"Skill has no version">>
    ELSE IF s.description = "" THEN <<"Skill has no description">>
    ELSE IF s.stakeholders = <<>> THEN <<"Skill has no stakeholders defined">>
    ELSE <<>>

\* validate_skill: four independent tests, each appending its issue.
validate_skill(s) ==
    (IF s.name = "" THEN <<"Skill has no name">> ELSE <<>>)
    \o (IF s.version = "" THEN <<"Skill has no version">> ELSE <<>>)
    \o (IF s.description = "" THEN <<"Skill has no description">> ELSE <<>>)
    \o (IF s.stakeholders = <<>> THEN <<"Skill has no stakeholders defined">> ELSE <<>>)

\* The history of registrations after register_skill(s).
Registered(h, s) == (s.name :> s) @@ h

RegisterSkill(s) ==
    /\ _skills' = register_skill(_skills, s)
    /\ lastReg' = Registered(lastReg, s)
    /\ op' = [kind |-> "register_skill", skill |-> s, name |-> s.name, result |-> <<>>]
    /\ UNCHANGED <<loads, got, auditVars, llm, standaloneVars, skillVars, oc>>

GetAvailableSkills ==
    LET g == get_available_skills(_skills)
    IN  /\ _skills' = g.registry
        /\ loads' = loads + LoadsBuiltins(_skills)
        /\ lastReg' = IF LoadsBuiltins(_skills) = 1
                      THEN Registered(lastReg, CodeQualitySkill) ELSE lastReg
        /\ op' = [kind |-> "get_available_skills", skill |-> NoSkill, name |-> "",
                  result |-> g.result]
        /\ got' = TRUE
        /\ UNCHANGED <<auditVars, llm, standaloneVars, skillVars, oc>>

GetSkillByName(n) ==
    LET g == get_skill_by_name(_skills, n)
    IN  /\ _skills' = g.registry
        /\ loads' = loads + LoadsBuiltins(_skills)
        /\ lastReg' = IF LoadsBuiltins(_skills) = 1
                      THEN Registered(lastReg, CodeQualitySkill) ELSE lastReg
        /\ op' = [kind |-> "get_skill_by_name", skill |-> NoSkill, name |-> n,
                  result |-> <<g.result>>]
        /\ got' = TRUE
        /\ UNCHANGED <<auditVars, llm, standaloneVars, skillVars, oc>>

ValidateSkill(s) ==
    /\ op' = [kind |-> "validate_skill", skill |-> s, name |-> s.name,
              result |-> validate_skill(s)]
    /\ UNCHANGED <<regVars, lastReg, got, auditVars, llm, standaloneVars, skillVars, oc>>

NextRegistry ==
    \/ \E s \in RegistryPool : RegisterSkill(s)
    \/ GetAvailableSkills
    \/ \E n \in LookupNames : GetSkillByName(n)
    \/ \E s \in ValidatePool \cup {CodeQualitySkill} : ValidateSkill(s)

SpecRegistry == Init /\ [][NextRegistry]_vars

\* C7: once get_available_skills or get_skill_by_name has been called, the
\* built-ins have been loaded exactly once, and get_available_skills returns a
\* skill named 'code-quality'.
C7_BuiltinsLoadedOnce ==
    got =>
        /\ loads = 1
        /\ op.kind = "get_available_skills" =>
               \E i \in DOMAIN op.result : op.result[i].name = "code-quality"

LastRegistered(n) == IF n \in DOMAIN lastReg THEN lastReg[n] ELSE NoSkill

RegistryByName ==
    /\ \A i, j \in DOMAIN _skills : _skills[i].key = _skills[j].key => i = j
    /\ \A n \in LookupNames : DictGet(_skills, n) = LastRegistered(n)
    /\ op.kind = "get_skill_by_name" => op.result = <<LastRegistered(op.name)>>
    /\ op.kind = "get_available_skills" =>
           /\ Range(op.result) = {lastReg[n] : n \in DOMAIN lastReg}
           /\ Len(op.result) = Cardinality(DOMAIN lastReg)

\* C8: the registry holds one skill per name, the one last registered under
\* it; get_skill_by_name returns it, or None; get_available_skills returns
\* each registered skill once; no call removes a name.
C8_RegistryKeyedByName == []RegistryByName /\ [][Keys(_skills) \subseteq Keys(_skills')]_vars

\* The built-in was loaded, then replaced under its name, and the lookup
\* returns the replacement.
C8_Witness ==
    /\ loads = 1
    /\ op.kind = "get_skill_by_name"
    /\ op.name = "code-quality"
    /\ op.result = <<CustomSkill("code-quality", "3.0.0")>>
    /\ Len(_skills) = 3

EmptyFields(s) ==
    {f \in {"name", "version", "description"} : s[f] = ""}
    \cup (IF s.stakeholders = <<>> THEN {"stakeholders"} ELSE {})

IssueOf(f) ==
    CASE f = "name" -> "Skill has no name"
      [] f = "version" -> "Skill has no version"
      [] f = "description" -> "Skill has no description"
      [] f = "stakeholders" -> "Skill has no stakeholders defined"

ValidateResult ==
    op.kind = "validate_skill" =>
        /\ op.result = <<>> <=> EmptyFields(op.skill) = {}
        /\ Len(op.result) = Cardinality(EmptyFields(op.skill))
        /\ Range(op.result) = {IssueOf(f) : f \in EmptyFields(op.skill)}

ValidateFrame == op'.kind = "validate_skill" => _skills' = _skills

\* C9: validate_skill returns the empty list exactly when name, version,
\* description and stakeholders are all non-empty, otherwise one issue per
\* empty field; the registry is left as it was.
C9_ValidateSkill == []ValidateResult /\ [][ValidateFrame]_vars

\* A skill with two empty fields validated against a non-empty registry.
C9_Witness ==
    /\ op.kind = "validate_skill"
    /\ Len(op.result) = 2
    /\ op.skill.name # ""
    /\ _skills # <<>>


\* C27: when the registry holds a skill, a call of get_available_skills or
\* get_skill_by_name leaves the registry as it was, names and skills; a skill
\* registered under the built-in's name is not replaced by a later load.
C27_LoadKeepsNonEmptyRegistry ==
    [][(op'.kind \in {"get_available_skills", "get_skill_by_name"} /\ _skills # <<>>) =>
           /\ _skills' = _skills
           /\ loads' = loads]_vars

\* A skill was registered under the built-in's name before any load, and the
\* lookup of the name returns it.
C27_Witness ==
    /\ op.kind = "get_skill_by_name"
    /\ op.name = "code-quality"
    /\ op.result = <<CustomSkill("code-quality", "2.0.0")>>
    /\ loads = 0
    /\ Len(_skills) = 1
(***************************************************************************)
(* The client as its callers see it: analyze calls.                        *)
(***************************************************************************)
\* client.py 121-129: analyze awaits generate, which answers or raises.
AnalyzeCall(response_format, gen) ==
    /\ llm.phase = "idle"
    /\ llm' = [llm EXCEPT !.phase = "generated", !.response_format = response_format,
                          !.gen = gen]
    /\ UNCHANGED <<regVars, auditVars, apiVars, standaloneVars, skillVars, oc>>

\* client.py 131-155: the rest of analyze.
AnalyzeReturn ==
    /\ llm.phase = "generated"
    /\ llm' = [llm EXCEPT !.phase = "returned",
                          !.result = analyze(llm.response_format, llm.gen)]
    /\ UNCHANGED <<regVars, auditVars, apiVars, standaloneVars, skillVars, oc>>

NextClient ==
    \/ /\ llm.phase = "idle"
       /\ \E f \in ResponseFormats, gen \in GenerateOutcomes : AnalyzeCall(f, gen)
    \/ AnalyzeReturn

SpecClient == Init /\ [][NextClient]_vars

\* C10: when generate succeeded and the text left after fence stripping is
\* not parseable JSON, analyze does not raise: it returns raw_content, the
\* response text as received, and parse_error true, with or without a schema.
C10_MalformedOutputFallback ==
    (llm.phase = "returned" /\ llm.gen.ok
        /\ ~JsonValid(StripFence(Strip(llm.gen.content)))) =>
        /\ llm.result.kind = "fallback"
        /\ llm.result.raw_content = llm.gen.content
        /\ llm.result.parse_error

\* A schema is supplied and the response is prose after an empty line: the
\* stripped text differs from the response, and the response is what returns.
C10_Witness ==
    /\ llm.phase = "returned"
    /\ llm.response_format = "LLMFindings"
    /\ llm.gen.ok
    /\ llm.gen.content = <<Blank, Prose>>
    /\ llm.result.kind = "fallback"
    /\ llm.result.raw_content = <<Blank, Prose>>


\* C11: when a schema is supplied and the response is well-formed JSON that
\* does not satisfy the schema, analyze does not raise: it returns the
\* fallback result, raw_content being the response and parse_error true.
C11_SchemaFailureFallback ==
    (llm.phase = "returned" /\ llm.gen.ok /\ llm.response_format # "None"
        /\ JsonValid(StripFence(Strip(llm.gen.content)))
        /\ JsonLoads(StripFence(Strip(llm.gen.content))) = "[1]") =>
        /\ llm.result.kind = "fallback"
        /\ llm.result.raw_content = llm.gen.content
        /\ llm.result.parse_error

\* The schema is absent, or the document is one LLMFindings accepts.
MatchesSchema(response_format, J) ==
    response_format = "None" \/ NonBlank(J) \in {<<JsonObject>>,
                                                 <<JsonObjectHead, JsonObjectTail>>}

\* C12: a response whose first line is a fence line, followed by the lines of
\* a valid JSON document J (matching the schema when one is supplied) and a
\* line starting with the fence delimiter, yields what the response J alone
\* yields, the value of J; whatever follows that first later fence line is
\* discarded with it.
C12_FenceStripping ==
    (llm.phase = "returned" /\ llm.gen.ok /\ IsFence(Head(llm.gen.content))) =>
        \A i \in 2..Len(llm.gen.content) :
            LET J == SubSeq(llm.gen.content, 2, i - 1)
            IN  (/\ IsFence(llm.gen.content[i])
                 /\ \A j \in 2..(i - 1) : ~IsFence(llm.gen.content[j])
                 /\ JsonValid(J)
                 /\ MatchesSchema(llm.response_format, J)) =>
                    /\ llm.result = analyze(llm.response_format,
                                            [llm.gen EXCEPT !.content = J])
                    /\ llm.result.kind \in {"data", "model"}
                    /\ llm.result.value = JsonLoads(J)

\* A document of two lines between a tagged fence line and a closing one,
\* validated against the schema.
C12_Witness ==
    /\ llm.phase = "returned"
    /\ llm.response_format = "LLMFindings"
    /\ llm.gen.ok
    /\ llm.gen.content = <<FenceJson, JsonObjectHead, JsonObjectTail, Fence>>
    /\ llm.result.kind = "model"
    /\ llm.result.value = "{findings: []}"


(***************************************************************************)
(* The standalone analysis, and the client calls a program can make: one   *)
(* call of a client method, or one run of run_standalone_analysis.         *)
(***************************************************************************)
NothingCalled == sa.phase = "idle" /\ ~avail.called /\ mock.method = "none"

\* OllamaClient.is_available, the catalog request included.
IsAvailable(model, catalog) ==
    /\ NothingCalled
    /\ avail' = [called |-> TRUE, model |-> model, catalog |-> catalog,
                 result |-> is_available(model, catalog)]
    /\ UNCHANGED <<regVars, auditVars, apiVars, llm, sa, mock, skillVars, oc>>

\* A call of one of MockLLMClient's methods.
MockCall(method, args) ==
    /\ NothingCalled
    /\ mock' = [method |-> method, args |-> args, result |-> MockLLMClient(method, args)]
    /\ UNCHANGED <<regVars, auditVars, apiVars, llm, sa, avail, skillVars, oc>>

\* standalone.py 44-73: the client is chosen, is_available awaited when
\* use_llm is set, and the skills resolved.
StandaloneSetup(use_llm, model, catalog, sk) ==
    /\ NothingCalled
    /\ LET r == is_available(model, catalog)
           s == StandaloneSkills(_skills, sk)
       IN  /\ _skills' = s.registry
           /\ loads' = loads + (IF s.registry # _skills THEN 1 ELSE 0)
           /\ sa' = [sa EXCEPT
                        !.use_llm = use_llm,
                        !.asked = use_llm,
                        !.available = use_llm /\ ~r.raised /\ r.value,
                        !.llm_client = llm_client(use_llm, ~r.raised /\ r.value),
                        !.skill_instances = s.instances,
                        !.idx = 1,
                        !.all_findings = <<>>,
                        !.skills_run = <<>>,
                        !.phase = IF s.error # "" THEN "done" ELSE "loop",
                        !.outcome = IF s.error # "" THEN [NoReport EXCEPT !.kind = "raise", !.error = s.error]
                                    ELSE NoReport]
    /\ UNCHANGED <<auditVars, apiVars, llm, avail, mock, skillVars, oc>>

\* standalone.py 79-86: one turn of the loop, the awaited analyze included.
StandaloneSkill(a) ==
    /\ sa.phase = "loop"
    /\ sa.idx <= Len(sa.skill_instances)
    /\ a \in AnalyzeOutcomes(sa.skill_instances[sa.idx])
    /\ sa' = [sa EXCEPT
                 !.given = Append(@, [skill |-> sa.skill_instances[sa.idx].name,
                                      llm |-> sa.llm_client, raised |-> a.raised]),
                 !.all_findings = IF a.raised THEN @ ELSE Extend(@, a.findings),
                 !.skills_run = IF a.raised THEN @
                                ELSE Append(@, sa.skill_instances[sa.idx].name),
                 !.idx = @ + 1]
    /\ UNCHANGED <<regVars, auditVars, apiVars, llm, avail, mock, skillVars, oc>>

\* standalone.py 88-97: filter, format, return.
StandaloneReturn ==
    /\ sa.phase = "loop"
    /\ sa.idx > Len(sa.skill_instances)
    /\ sa' = [sa EXCEPT !.phase = "done",
                        !.outcome = Report(FilterMinConfidence(sa.all_findings),
                                           sa.skills_run)]
    /\ UNCHANGED <<regVars, auditVars, apiVars, llm, avail, mock, skillVars, oc>>

NextStandalone ==
    \/ /\ NothingCalled
       /\ \E model \in ModelNames, catalog \in Catalogs : IsAvailable(model, catalog)
    \/ /\ NothingCalled
       /\ \E method \in {"analyze", "generate", "is_available"},
             args \in {<<>>, <<"prompt">>, <<"prompt", "LLMFindings">>} :
              MockCall(method, args)
    \/ /\ NothingCalled
       /\ \E use_llm \in BOOLEAN, model \in ModelNames, catalog \in Catalogs,
             sk \in SkillsArgs : StandaloneSetup(use_llm, model, catalog, sk)
    \/ /\ sa.phase = "loop" /\ sa.idx <= Len(sa.skill_instances)
       /\ \E a \in AnalyzeOutcomes(sa.skill_instances[sa.idx]) : StandaloneSkill(a)
    \/ StandaloneReturn

SpecStandalone == Init /\ [][NextStandalone]_vars

\* The configured name up to its first colon, all of it when it has none.
BaseName(model) ==
    LET colons == {i \in DOMAIN model : model[i] = ":"}
    IN  IF colons = {} THEN model
        ELSE SubSeq(model, 1, (CHOOSE i \in colons : \A j \in colons : i <= j) - 1)

\* The request was answered with a JSON object whose entries all have names.
CatalogRead(catalog) ==
    /\ catalog.kind \in {"object", "no_models"}
    /\ \A i \in DOMAIN catalog.models : catalog.models[i] # NoName

\* C13: is_available does not raise; it returns true exactly when the catalog
\* was fetched and read and the name of one of its entries starts with the
\* configured model name cut at its first colon; it returns false when the
\* connection, the HTTP status or the reading of the response fails.
C13_IsAvailable ==
    avail.called =>
        /\ ~avail.result.raised
        /\ avail.result.value <=>
               /\ CatalogRead(avail.catalog)
               /\ \E i \in DOMAIN avail.catalog.models :
                      startswith(avail.catalog.models[i], BaseName(avail.model))
        /\ avail.catalog.kind \in CatalogFailures => ~avail.result.value

\* The configured name has a tag, and the catalog lists another model first
\* and then a longer name with another tag.
C13_Witness ==
    /\ avail.called
    /\ avail.model = <<"q", "w", ":", "7">>
    /\ avail.catalog.kind = "object"
    /\ avail.catalog.models = << <<"l", "l", ":", "1">>, <<"q", "w", "x", ":", "1">> >>
    /\ avail.result.value

NothingRun == cq.phase = "idle" /\ fn.kind = "none"

CallDeduplicate(findings) ==
    /\ NothingRun
    /\ fn' = [kind |-> "_deduplicate", arg |-> findings,
              result |-> _deduplicate(findings)]
    /\ UNCHANGED <<regVars, auditVars, apiVars, llm, standaloneVars, cq, oc>>

CallGetRuffSeverity(code) ==
    /\ NothingRun
    /\ fn' = [kind |-> "_get_ruff_severity", arg |-> code,
              result |-> _get_ruff_severity(code)]
    /\ UNCHANGED <<regVars, auditVars, apiVars, llm, standaloneVars, cq, oc>>

CallCreateFinding(self, severity, effort_estimate, source) ==
    /\ NothingRun
    /\ fn' = [kind |-> "create_finding",
              arg |-> [self |-> self, severity |-> severity,
                       effort_estimate |-> effort_estimate, source |-> source],
              result |-> create_finding(self, Title.nesting, severity, "complexity",
                                        FilePaths[1], 1, effort_estimate, source, 10)]
    /\ UNCHANGED <<regVars, auditVars, apiVars, llm, standaloneVars, cq, oc>>

\* skill.py 82-86: analyze is entered and the lint stage awaited.
RunRuff(run) ==
    /\ NothingRun
    /\ LET r == _run_ruff(CodeQualitySkill, run)
       IN  cq' = [cq EXCEPT !.ruff = run,
                            !.phase = IF r.raised THEN "raised" ELSE "ruff",
                            !.error = r.error,
                            !.ruff_findings = r.value,
                            !.findings = Extend(<<>>, r.value)]
    /\ UNCHANGED <<regVars, auditVars, apiVars, llm, standaloneVars, fn, oc>>

\* skill.py 88-94: the complexity stage awaited, the files over the
\* threshold selected.
CalculateComplexity(run) ==
    /\ cq.phase = "ruff"
    /\ LET r == _calculate_complexity(run)
       IN  cq' = [cq EXCEPT !.radon = run,
                            !.phase = IF r.raised THEN "raised" ELSE "llm",
                            !.error = r.error,
                            !.complexity_metrics = r.value,
                            !.high_complexity_files = high_complexity_files(r.value),
                            !.i = 1]
    /\ UNCHANGED <<regVars, auditVars, apiVars, llm, standaloneVars, fn, oc>>

\* skill.py 96-98: one turn of the loop over high_complexity_files[:5].
AnalyzeWithLlm(o) ==
    /\ cq.phase = "llm"
    /\ cq.i <= Len(Slice(cq.high_complexity_files, MaxLlmFiles))
    /\ LET r == _analyze_with_llm(CodeQualitySkill, cq.high_complexity_files[cq.i], o)
       IN  cq' = [cq EXCEPT !.analyzed = Append(@, cq.high_complexity_files[cq.i].file_path),
                            !.outcomes = Append(@, o),
                            !.phase = IF r.raised THEN "raised" ELSE @,
                            !.error = r.error,
                            !.findings = Extend(@, r.value),
                            !.i = @ + 1]
    /\ UNCHANGED <<regVars, auditVars, apiVars, llm, standaloneVars, fn, oc>>

\* A bug: analyze returning before the loop has ended.
AnalyzeEndEarly ==
    /\ cq.phase = "llm"
    /\ cq' = [cq EXCEPT !.phase = "returned", !.result = _deduplicate(cq.findings)]
    /\ UNCHANGED <<regVars, auditVars, apiVars, llm, standaloneVars, fn, oc>>

\* skill.py 100-103: deduplicate and return.
AnalyzeEnd ==
    /\ cq.phase = "llm"
    /\ cq.i > Len(Slice(cq.high_complexity_files, MaxLlmFiles))
    /\ cq' = [cq EXCEPT !.phase = "returned", !.result = _deduplicate(cq.findings)]
    /\ UNCHANGED <<regVars, auditVars, apiVars, llm, standaloneVars, fn, oc>>

NextSkill ==
    \/ /\ NothingRun
       /\ \E findings \in SeqsUpTo({DedupFindings[i] : i \in DOMAIN DedupFindings}, MaxDedup) : CallDeduplicate(findings)
    \/ /\ NothingRun
       /\ \E code \in {RuleCode[k] : k \in DOMAIN RuleCode} : CallGetRuffSeverity(code)
    \/ /\ NothingRun
       /\ \E self \in {CodeQualitySkill, CustomSkill("architecture", "2.0.0")},
             severity \in {"critical", "HIGH", "High", "medium", "info", "Urgent"},
             effort_estimate \in {NoEffort, "trivial", "SMALL", "Large", "huge"},
             source \in {"static", "Static", "LLM", "combined", "manual"} :
              CallCreateFinding(self, severity, effort_estimate, source)
    \/ /\ NothingRun
       /\ \E run \in RuffRuns : RunRuff(run)
    \/ /\ cq.phase = "ruff"
       /\ \E run \in RadonRuns : CalculateComplexity(run)
    \/ /\ cq.phase = "llm"
       /\ \E o \in LlmOutcomes : AnalyzeWithLlm(o)
    \/ AnalyzeEnd

SpecSkill == Init /\ [][NextSkill]_vars

\* C15: _deduplicate applied to its own output returns that output, the same
\* findings in the same order.
C15_DeduplicateIdempotent ==
    /\ fn.kind = "_deduplicate" => _deduplicate(fn.result) = fn.result
    /\ cq.phase = "returned" => _deduplicate(cq.result) = cq.result

\* A list of three findings, the first and the last with one key: the last
\* one was dropped.
C15_Witness ==
    /\ fn.kind = "_deduplicate"
    /\ fn.arg = <<DedupFindings[1], DedupFindings[3], DedupFindings[2]>>
    /\ fn.result = <<DedupFindings[1], DedupFindings[3]>>

\* The severity of the longest prefix of the table the code starts with,
\* MEDIUM when it starts with none.
LongestPrefixSeverity(code) ==
    LET hits == {i \in DOMAIN RUFF_SEVERITY_MAP :
                    startswith(code, RUFF_SEVERITY_MAP[i].prefix)}
    IN  IF hits = {} THEN "medium"
        ELSE RUFF_SEVERITY_MAP[
                 CHOOSE i \in hits : \A j \in hits :
                     Len(RUFF_SEVERITY_MAP[j].prefix) <= Len(RUFF_SEVERITY_MAP[i].prefix)
             ].severity

\* C16: _get_ruff_severity returns the severity of the longest prefix of
\* RUFF_SEVERITY_MAP that the code starts with, MEDIUM when there is none;
\* F401 gives HIGH and ZZ1 gives MEDIUM.
C16_LongestPrefixSeverity ==
    fn.kind = "_get_ruff_severity" =>
        /\ fn.result = LongestPrefixSeverity(fn.arg)
        /\ fn.arg = RuleCode.F401 => fn.result = "high"
        /\ fn.arg = RuleCode.ZZ1 => fn.result = "medium"


\* The findings the backend returned for the files, in file order and, for
\* a file, in response order.
RECURSIVE LlmEntries(_, _)
LlmEntries(files, outcomes) ==
    IF files = <<>> \/ outcomes = <<>>
    THEN <<>>
    ELSE [j \in DOMAIN Head(outcomes).reply.findings |->
             [file_path |-> Head(files).file_path,
              entry |-> Head(outcomes).reply.findings[j]]]
         \o LlmEntries(Tail(files), Tail(outcomes))

\* The files of the report whose function complexities add up to more than
\* the threshold.
FilesOverThreshold(run) ==
    SelectSeq(run.report, LAMBDA f : SumComplexity(f.value.functions) > ComplexityThreshold)

\* The linter reported issues with rule codes, the complexity tool function
\* lists, every file analysed was read and answered with an LLMFindings, and
\* no two findings produced share a deduplication key.
WellFormedRun ==
    /\ cq.phase \in {"returned", "raised"}
    /\ cq.ruff.kind = "list"
    /\ \A i \in DOMAIN cq.ruff.report : cq.ruff.report[i].code # NullCode
    /\ cq.radon.kind = "object"
    /\ \A i \in DOMAIN cq.radon.report : cq.radon.report[i].value.is_list
    /\ Len(FilesOverThreshold(cq.radon)) <= MaxLlmFiles
    /\ \A i \in DOMAIN cq.outcomes :
           cq.outcomes[i].read = "ok" /\ cq.outcomes[i].reply.kind = "model"
    /\ \A i, j \in DOMAIN cq.findings :
           DedupKey(cq.findings[i]) = DedupKey(cq.findings[j]) => i = j

\* C17: when the linter reports n issues, k <= 5 files exceed the complexity
\* threshold, the backend returns a well-formed findings object for each of
\* them and no two findings share a deduplication key, analyze returns the n
\* STATIC findings of confidence 1.0, one per issue in the linter's order,
\* and after them the LLM findings of the k files; for the codes E501 and
\* F841 and one LLM finding that is three findings of severity MEDIUM, HIGH
\* and the one the LLM named.
C17_Composition ==
    WellFormedRun =>
        LET n == Len(cq.ruff.report)
            over == FilesOverThreshold(cq.radon)
            expected == LlmEntries(over, cq.outcomes)
        IN  /\ cq.phase = "returned"
            /\ Len(cq.outcomes) = Len(over)
            /\ Len(cq.result) = n + Len(expected)
            /\ \A i \in 1..n :
                   /\ cq.result[i].source = "static"
                   /\ cq.result[i].confidence = 10
                   /\ cq.result[i].title = cq.ruff.report[i].message
                   /\ cq.result[i].file_path = cq.ruff.report[i].filename
                   /\ cq.result[i].line_start = cq.ruff.report[i].row
            /\ \A j \in DOMAIN expected :
                   /\ cq.result[n + j].source = "llm"
                   /\ cq.result[n + j].title = expected[j].entry.title
                   /\ cq.result[n + j].file_path = expected[j].file_path
                   /\ cq.result[n + j].line_start = expected[j].entry.start_line
                   /\ cq.result[n + j].confidence = expected[j].entry.confidence
            /\ ([i \in 1..n |-> cq.ruff.report[i].code] = <<RuleCode.E501, RuleCode.F841>>
                    /\ Len(expected) = 1) =>
                   /\ Len(cq.result) = 3
                   /\ cq.result[1].severity = "medium"
                   /\ cq.result[2].severity = "high"
                   /\ expected[1].entry.severity \in Severity =>
                          cq.result[3].severity = expected[1].entry.severity

\* E501 and F841 reported, one file over the threshold and one finding of
\* severity high returned for it.
C17_Witness ==
    /\ cq.phase = "returned"
    /\ cq.ruff.report = <<Issue.E501, Issue.F841>>
    /\ Len(cq.high_complexity_files) = 1
    /\ cq.outcomes = <<[read |-> "ok",
                        reply |-> LLMFindings(<<LLMFinding(Title.nesting, "high", 10,
                                                           "medium", 8)>>)]>>
    /\ [i \in DOMAIN cq.result |-> cq.result[i].severity] = <<"medium", "high", "high">>
    /\ [i \in DOMAIN cq.result |-> cq.result[i].source] = <<"static", "static", "llm">>

\* C18: every finding analyze returns has a confidence within [0, 1], the
\* findings taken from the backend's response included.
C18_ConfidenceRange ==
    cq.phase = "returned" =>
        \A i \in DOMAIN cq.result : cq.result[i].confidence \in 0..10

\* The strings that name a member of an enumeration, in any letter case.
Spellings(member) ==
    CASE member = "critical" -> {"critical", "CRITICAL"}
      [] member = "high" -> {"high", "HIGH", "High"}
      [] member = "static" -> {"static", "Static"}
      [] member = "llm" -> {"llm", "LLM"}
      [] member = "small" -> {"small", "SMALL"}
      [] OTHER -> {member}

\* C19: create_finding sets skill_name and stakeholders from the creating
\* skill and turns a severity, source or effort string into the member it
\* names, whatever its letter case; every finding analyze returns carries
\* the name of the skill.
C19_CreateFinding ==
    /\ fn.kind = "create_finding" =>
           /\ fn.result # ValueErrorRaised =>
                  /\ fn.result.skill_name = fn.arg.self.name
                  /\ fn.result.stakeholders = fn.arg.self.stakeholders
           /\ \A sev \in Severity, src \in FindingSource,
                 eff \in EffortEstimate \cup {NoEffort} :
                  (/\ fn.arg.severity \in Spellings(sev)
                   /\ fn.arg.source \in Spellings(src)
                   /\ fn.arg.effort_estimate \in Spellings(eff)) =>
                      /\ fn.result # ValueErrorRaised
                      /\ fn.result.severity = sev
                      /\ fn.result.source = src
                      /\ fn.result.effort_estimate = eff
    /\ cq.phase = "returned" =>
           \A i \in DOMAIN cq.result :
               /\ cq.result[i].skill_name = CodeQualitySkill.name
               /\ cq.result[i].stakeholders = CodeQualitySkill.stakeholders

\* A skill other than the built-in one, and the three strings in capitals.
C19_Witness ==
    /\ fn.kind = "create_finding"
    /\ fn.arg.self = CustomSkill("architecture", "2.0.0")
    /\ fn.arg.severity = "HIGH"
    /\ fn.arg.source = "LLM"
    /\ fn.arg.effort_estimate = "SMALL"
    /\ fn.result.skill_name = "architecture"
    /\ fn.result.stakeholders = <<"developer">>
    /\ fn.result.severity = "high"
    /\ fn.result.source = "llm"
    /\ fn.result.effort_estimate = "small"

\* The tool is absent, times out, or prints what is not the report expected.
RuffMalformed(run) ==
    \/ run.kind \in ToolFailures \cup {"not_list"}
    \/ \E i \in DOMAIN run.report : run.report[i].code = NullCode

RadonMalformed(run) ==
    \/ run.kind \in ToolFailures \cup {"not_object"}
    \/ \E i \in DOMAIN run.report : ~run.report[i].value.is_list

\* C20: when the linter or the complexity tool is absent, times out or
\* prints malformed output (no JSON, or JSON of another shape, such as an
\* issue with a null code or a file value that is no list of function
\* records), its stage returns nothing and analyze goes on without raising.
C20_StaticStagesDegrade ==
    /\ RuffMalformed(cq.ruff) =>
           /\ cq.ruff_findings = <<>>
           /\ ~(cq.phase = "raised" /\ cq.radon = NoToolRun)
    /\ RadonMalformed(cq.radon) =>
           /\ cq.complexity_metrics = <<>>
           /\ cq.phase \in {"llm", "returned"}


\* C21: an exception raised while a candidate file is processed in the
\* deep-analysis stage is caught: the file contributes nothing, the other
\* candidates are still processed, and analyze does not abort because of it.
C21_DeepAnalysisIsolation ==
    /\ cq.outcomes # <<>> => cq.phase # "raised"
    /\ cq.phase = "returned" =>
           Len(cq.outcomes) = Len(Slice(cq.high_complexity_files, MaxLlmFiles))


(***************************************************************************)
(* CodeQualitySkill.analyze on a repository of many files: the linter      *)
(* prints nothing, the backend is the no-op client or answers with one     *)
(* finding.                                                                *)
(***************************************************************************)
NextCandidates ==
    \/ /\ NothingRun
       /\ \E run \in {[kind |-> "empty", report |-> <<>>]} : RunRuff(run)
    \/ /\ cq.phase = "ruff"
       /\ \E run \in ManyRadonRuns : CalculateComplexity(run)
    \/ /\ cq.phase = "llm"
       /\ \E o \in {[read |-> "ok", reply |-> [kind |-> "skipped", findings |-> <<>>]],
                    [read |-> "ok",
                     reply |-> LLMFindings(<<LLMFinding(Title.nesting, "high", 10,
                                                        "medium", 8)>>)]} :
              AnalyzeWithLlm(o)
    \/ AnalyzeEnd

SpecCandidates == Init /\ [][NextCandidates]_vars

\* C22: the files analysed in one invocation are the first five, in the
\* order of the complexity report and unsorted, of the files whose summed
\* complexity is strictly greater than the threshold; the client's analyze
\* is called at most five times and never for a file at or below the
\* threshold.
C22_BoundedSelection ==
    cq.radon.kind = "object" =>
        LET over == FilesOverThreshold(cq.radon)
            k == IF Len(over) < 5 THEN Len(over) ELSE 5
        IN  /\ Len(cq.analyzed) <= k
            /\ Len(cq.outcomes) = Len(cq.analyzed)
            /\ \A i \in DOMAIN cq.analyzed : cq.analyzed[i] = over[i].file_path
            /\ cq.phase = "returned" => Len(cq.analyzed) = k

\* Seven files: the first at the threshold, five just over it, the last far
\* over it; the second to the sixth were analysed.
C22_Witness ==
    /\ cq.phase = "returned"
    /\ Len(cq.radon.report) = 7
    /\ [i \in 1..7 |-> cq.radon.report[i].value.functions[1].complexity] =
           <<ComplexityThreshold, ComplexityThreshold + 1, ComplexityThreshold + 1,
             ComplexityThreshold + 1, ComplexityThreshold + 1, ComplexityThreshold + 1,
             ComplexityThreshold + 9>>
    /\ cq.analyzed = <<"f2.py", "f3.py", "f4.py", "f5.py", "f6.py">>
    /\ Len(cq.result) = 5


\* The positions of a list whose key no earlier position has.
FirstOccurrences(findings) ==
    {i \in DOMAIN findings :
        \A j \in 1..(i - 1) : DedupKey(findings[j]) # DedupKey(findings[i])}

\* output is input restricted to the first occurrence of each key.
KeepsFirst(input, output) ==
    LET S == FirstOccurrences(input)
        nth(k) == CHOOSE i \in S : Cardinality({j \in S : j <= i}) = k
    IN  /\ Len(output) = Cardinality(S)
        /\ \A k \in DOMAIN output : output[k] = input[nth(k)]
        /\ \A k, l \in DOMAIN output :
               DedupKey(output[k]) = DedupKey(output[l]) => k = l

\* C23: _deduplicate returns a subsequence of its input in which no two
\* findings share the triple (file_path, line_start, first 50 characters of
\* the title), and of the findings of one triple it keeps the earliest.
C23_KeepsFirstOccurrence ==
    /\ fn.kind = "_deduplicate" => KeepsFirst(fn.arg, fn.result)
    /\ cq.phase = "returned" => KeepsFirst(cq.findings, cq.result)

\* Three findings of one key, titles differing after the fiftieth character:
\* the first was kept.
C23_Witness ==
    /\ fn.kind = "_deduplicate"
    /\ fn.arg = <<DedupFindings[2], DedupFindings[1], DedupFindings[2]>>
    /\ fn.result = <<DedupFindings[2]>>


\* C24: in every invocation of analyze the lint tool has completed before
\* the complexity tool starts, every call of the client's analyze comes
\* after the complexity stage, and deduplication runs once, after the last
\* deep-analysis call and immediately before the result is returned.
C24_StageOrder ==
    [][/\ cq.radon' # cq.radon =>
              /\ cq.phase = "ruff"
              /\ cq.ruff # NoToolRun /\ cq.ruff' = cq.ruff
              /\ cq.analyzed = <<>>
       /\ cq.analyzed' # cq.analyzed =>
              /\ cq.phase = "llm"
              /\ cq.radon # NoToolRun /\ cq.radon' = cq.radon /\ cq.ruff' = cq.ruff
       /\ cq.phase' = "returned" =>
              /\ cq.phase = "llm"
              /\ cq.analyzed' = cq.analyzed
              /\ Len(cq.analyzed) = Len(Slice(cq.high_complexity_files, MaxLlmFiles))
              /\ cq.findings' = cq.findings
              /\ cq.result' = _deduplicate(cq.findings)
       /\ cq.phase = "returned" => cq' = cq]_vars

\* One issue reported, two files analysed, and the result returned.
C24_Witness ==
    /\ cq.phase = "returned"
    /\ Len(cq.ruff.report) = 1
    /\ Len(cq.radon.report) = 2
    /\ Len(cq.analyzed) = 2
    /\ Len(cq.result) = 3


\* t[1] + ... + t[n]
RECURSIVE SumTo(_, _)
SumTo(t, n) == IF n = 0 THEN 0 ELSE t[n] + SumTo(t, n - 1)

\* C25: for a complexity report that maps files to lists of function
\* records, _calculate_complexity yields one ComplexityMetrics per file with
\* a non-empty list, in report order, whose cyclomatic is the sum of the
\* functions' complexities and whose loc is the sum of (end line - start
\* line); a file with an empty list yields none.
C25_ComplexityAggregation ==
    (cq.phase \in {"llm", "returned"} /\ cq.radon.kind = "object") =>
        LET measured == SelectSeq(cq.radon.report, LAMBDA f : f.value.functions # <<>>)
        IN  /\ Len(cq.complexity_metrics) = Len(measured)
            /\ \A i \in DOMAIN measured :
                   LET fs == measured[i].value.functions
                       m == cq.complexity_metrics[i]
                   IN  /\ m.file_path = measured[i].file_path
                       /\ m.functions = fs
                       /\ m.cyclomatic =
                              SumTo([j \in DOMAIN fs |-> fs[j].complexity], Len(fs))
                       /\ m.loc =
                              SumTo([j \in DOMAIN fs |-> fs[j].endline - fs[j].lineno],
                                    Len(fs))

\* A file without functions and a file of two functions, of complexity 8
\* and 3 and of 4 and 2 lines: one record, of cyclomatic 11 and loc 6.
C25_Witness ==
    /\ cq.phase = "llm"
    /\ Len(cq.radon.report) = 2
    /\ cq.radon.report[1].value.functions = <<>>
    /\ Len(cq.radon.report[2].value.functions) = 2
    /\ Len(cq.complexity_metrics) = 1
    /\ cq.complexity_metrics[1].file_path = cq.radon.report[2].file_path
    /\ cq.complexity_metrics[1].cyclomatic = 11
    /\ cq.complexity_metrics[1].loc = 6


(***************************************************************************)
(* The client's session as coroutines see it: calls of generate,           *)
(* is_available, ensure_model and close on one instance, interleaved at    *)
(* their await points.                                                     *)
(***************************************************************************)
othersVars == <<regVars, auditVars, apiVars, llm, standaloneVars, skillVars>>

\* client.py 65, 160, 178: client = await self._get_client(), up to the
\* await of the request.
SessionCall(p, method) ==
    /\ oc.co[p].pc = "idle"
    /\ LET g == _get_client(oc)
       IN  oc' = [oc EXCEPT
                     !._client = g._client,
                     !.sessions = g.sessions,
                     !.co[p] = [op |-> method, pc |-> "request", client |-> g.result,
                                handed_closed |-> g.sessions[g.result] = "closed",
                                result |-> ""]]
    /\ UNCHANGED othersVars

\* The awaited request ends: as the backend has it, or refused by a session
\* that has been closed.
SessionRespond(p, out) ==
    /\ oc.co[p].pc = "request"
    /\ oc' = [oc EXCEPT
                 !.co[p].pc = "done",
                 !.co[p].result = IF oc.sessions[oc.co[p].client] = "closed"
                                  THEN "RuntimeError" ELSE out]
    /\ UNCHANGED othersVars

\* client.py 43-44: close up to the point where aclose suspends; the session
\* is closed from there on.  Without a session close returns at once.
CloseBegin(p) ==
    /\ oc.co[p].pc = "idle"
    /\ IF oc._client = NoSession
       THEN oc' = [oc EXCEPT !.co[p].op = "close", !.co[p].pc = "done"]
       ELSE oc' = [oc EXCEPT !.co[p].op = "close", !.co[p].pc = "aclose",
                             !.co[p].client = oc._client,
                             !.sessions[oc._client] = "closed"]
    /\ UNCHANGED othersVars

\* client.py 45: aclose has returned; self._client = None.
CloseEnd(p) ==
    /\ oc.co[p].pc = "aclose"
    /\ oc' = [oc EXCEPT !._client = NoSession, !.co[p].pc = "done"]
    /\ UNCHANGED othersVars

NextSession ==
    \/ \E p \in Coroutines, method \in SessionMethods : SessionCall(p, method)
    \/ \E p \in Coroutines, out \in {"ok", "ConnectError"} : SessionRespond(p, out)
    \/ \E p \in Coroutines : CloseBegin(p)
    \/ \E p \in Coroutines : CloseEnd(p)

SpecSession == Init /\ [][NextSession]_vars


\* Coroutine p takes the step that fetches the session.
Fetches(p) == oc.co[p].pc = "idle" /\ oc.co'[p].pc = "request"

\* C26: a client holds at most one session; none exists before the first
\* generate, is_available or ensure_model call, which creates it; a later
\* call is handed the session held and creates none, until close; close
\* releases the session and resets the client, so that the next call creates
\* a fresh one; close without a session does nothing.
C26_SessionLifecycle ==
    /\ [](/\ oc._client \in {NoSession} \cup DOMAIN oc.sessions
          /\ oc.sessions # <<>> => \E p \in Coroutines : oc.co[p].op \in SessionMethods)
    /\ [][/\ \A p \in Coroutines :
                 Fetches(p) =>
                     IF oc._client = NoSession
                     THEN /\ oc.sessions' = Append(oc.sessions, "open")
                          /\ oc._client' = Len(oc.sessions')
                          /\ oc.co'[p].client = oc._client'
                     ELSE /\ oc.sessions' = oc.sessions
                          /\ oc._client' = oc._client
                          /\ oc.co'[p].client = oc._client
          /\ \A p \in Coroutines :
                 (oc.co[p].pc = "idle" /\ oc.co'[p].op = "close") =>
                     IF oc._client = NoSession
                     THEN /\ oc.co'[p].pc = "done"
                          /\ oc._client' = NoSession /\ oc.sessions' = oc.sessions
                     ELSE /\ oc.sessions'[oc._client] = "closed"
                          /\ Len(oc.sessions') = Len(oc.sessions)
          /\ \A p \in Coroutines :
                 (oc.co[p].pc = "aclose" /\ oc.co'[p].pc = "done") =>
                     /\ oc._client' = NoSession
                     /\ oc.sessions[oc.co[p].client] = "closed"
          /\ Len(oc.sessions') # Len(oc.sessions) =>
                 oc._client = NoSession /\ \E p \in Coroutines : Fetches(p)]_vars

\* A call created the first session, a close released it, and the next call
\* created the second.
C26_Witness ==
    /\ oc.sessions = <<"closed", "open">>
    /\ oc._client = 2
    /\ oc.co[1].op = "generate" /\ oc.co[1].client = 1 /\ oc.co[1].result = "ok"
    /\ oc.co[2].op = "close" /\ oc.co[2].pc = "done"
    /\ oc.co[3].op = "is_available" /\ oc.co[3].client = 2
    /\ ~oc.co[3].handed_closed

\* C28: when close interleaves with generate or is_available calls of other
\* coroutines on the same client, no call is handed a session that has
\* already been closed.
C28_NoClosedSessionHandedOut ==
    \A p \in Coroutines : ~oc.co[p].handed_closed


\* C30: analyze emits a finding of source LLM only for an entry of a
\* response validated as LLMFindings; when the client returns the no-op
\* result or the parse-error fallback, or raises, for every file analysed,
\* the result is the deduplicated lint findings alone, as it is when no file
\* is over the threshold.
C30_LlmFindingsOnlyFromValidated ==
    cq.phase = "returned" =>
        /\ \A i \in DOMAIN cq.result :
               cq.result[i].source = "llm" =>
                   \E j \in DOMAIN cq.outcomes :
                       /\ cq.outcomes[j].read = "ok"
                       /\ cq.outcomes[j].reply.kind = "model"
                       /\ cq.analyzed[j] = cq.result[i].file_path
                       /\ \E k \in DOMAIN cq.outcomes[j].reply.findings :
                              cq.outcomes[j].reply.findings[k].title = cq.result[i].title
        /\ (\A j \in DOMAIN cq.outcomes :
                /\ cq.outcomes[j].read = "ok"
                /\ cq.outcomes[j].reply.kind \in {"skipped", "fallback", "raise"}) =>
               /\ cq.result = _deduplicate(cq.ruff_findings)
               /\ \A i \in DOMAIN cq.result : cq.result[i].source = "static"

\* Two files over the threshold, the fallback returned for one and an error
\* raised for the other; the result is the one lint finding.
C30_Witness ==
    /\ cq.phase = "returned"
    /\ Len(cq.ruff.report) = 1
    /\ Len(cq.outcomes) = 2
    /\ cq.outcomes[1].read = "ok" /\ cq.outcomes[1].reply.kind = "fallback"
    /\ cq.outcomes[2].read = "ok" /\ cq.outcomes[2].reply.kind = "raise"
    /\ Len(cq.result) = 1
    /\ cq.result[1].source = "static"

====
